---- MODULE Spec2Model ----
(***************************************************************************)
(* A model of src/src/main.rs: a ggez event handler (MainState) that owns  *)
(* a specs World with two ships, a MovementSystem and a CollisionSystem,   *)
(* driven by a fixed-timestep update loop.                                 *)
(*                                                                         *)
(* Coordinates are the f32 values of the program; every value the model    *)
(* reaches is an integer far below 2^24, where f32 arithmetic is exact, so *)
(* they are modelled as integers.  Time is counted in quanta of 1/120 s.   *)
(***************************************************************************)
EXTENDS Integers, Sequences, FiniteSets, TLC

\* ---------------------------------------------------------------- bounds
\* Largest frame delta (in quanta) one timer tick adds.
MaxElapsed == 7
\* Total wall time (in quanta) the host lets pass in the full program model.
MaxTime == 8
\* Total wall time (in quanta) of the two-ship scenario.
ScenarioTime == 66
\* Box coordinates and sizes of the arbitrary worlds are Speed * (0..GridMax).
GridMax == 2

\* ---------------------------------------------------- program constants
\* The fixed distance one held direction moves an entity per step.
Speed == 10
\* The fixed step 1/DESIRED_FPS = 1/60 s, in quanta of 1/120 s.
StepDt == 2
\* The initial coordinates given to the two ships by MainState::new.
ShipAX == 75
ShipBX == 275
ShipY == 100

\* The two entities created by MainState::new, by entity index.
ShipA == 0
ShipB == 1

\* Width and height of /ship.PNG, read at start-up: an input of the program.
ShipSizes == {<<100, 50>>, <<190, 20>>}

KeyCodes == {"Up", "Down", "Left", "Right", "Other"}
ArrowKeys == {"Up", "Down", "Left", "Right"}

VARIABLES
    position,       \* Position table: entity -> [x, y]
    coll_box,       \* CollisionBox table: entity -> [x, y, width, height]
    image,          \* entities holding an Image
    controlled,     \* entities holding ControllableTag
    direction,      \* the Direction resource of the specs world
    player_input,   \* MainState.player_input
    residual,       \* the timer's accumulated, not yet consumed time
    pc,             \* where the handler stands: idle, or a place in update
    log,            \* per simulation step, the "Collision detected" reports
    acc0,           \* observer: residual at the entry of the current update
    ran,            \* observer: simulation steps run by the current update
    held,           \* observer: per arrow key, whether its last event was a key-down
    drawn,          \* entities the last draw call drew
    draw_errors     \* entities whose draw error the last draw call printed

vars == <<position, coll_box, image, controlled, direction, player_input,
          residual, pc, log, acc0, ran, held, drawn, draw_errors>>

world == <<position, coll_box, image, controlled>>
input == <<direction, player_input, held>>
timing == <<residual, acc0, ran>>
screen == <<drawn, draw_errors>>

\* ---------------------------------------------------------------- helpers
RECURSIVE SortedSeq(_)
\* The entities of S in increasing index order: the order of a specs join.
SortedSeq(S) ==
    IF S = {} THEN <<>>
    ELSE LET m == CHOOSE x \in S : \A y \in S : x <= y
         IN  <<m>> \o SortedSeq(S \ {m})

RECURSIVE Flatten(_)
Flatten(ss) == IF ss = <<>> THEN <<>> ELSE Head(ss) \o Flatten(Tail(ss))

Range(q) == {q[i] : i \in DOMAIN q}

\* The reports of the most recent collision step.
LastReports == IF log = <<>> THEN <<>> ELSE log[Len(log)]

\* Direction::new
DirectionNew == [up |-> FALSE, down |-> FALSE, left |-> FALSE, right |-> FALSE]

\* ----------------------------------------------------------- construction
\* MainState::new, for a ship image of the given width and height.
NewWorld(w, h) ==
    /\ position = (ShipA :> [x |-> ShipAX, y |-> ShipY])
                  @@ (ShipB :> [x |-> ShipBX, y |-> ShipY])
    /\ coll_box = (ShipA :> [x |-> ShipAX, y |-> ShipY, width |-> w, height |-> h])
                  @@ (ShipB :> [x |-> ShipBX, y |-> ShipY, width |-> w, height |-> h])
    /\ image = {ShipA, ShipB}
    /\ controlled = {ShipA}
    /\ direction = DirectionNew
    /\ player_input = DirectionNew
    /\ residual = 0
    /\ pc = "idle"
    /\ log = <<>>
    /\ acc0 = 0
    /\ ran = 0
    /\ held = [k \in ArrowKeys |-> FALSE]
    /\ drawn = <<>>
    /\ draw_errors = {}

Init == \E s \in ShipSizes : NewWorld(s[1], s[2])

\* ------------------------------------------------------------ MovementSystem
\* The adjustments chained with else: the first held flag of an axis wins.
MovePosition_elseIf(dir, p) ==
    LET y2 == IF dir.up THEN p.y - Speed
              ELSE IF dir.down THEN p.y + Speed ELSE p.y
        x2 == IF dir.left THEN p.x - Speed
              ELSE IF dir.right THEN p.x + Speed ELSE p.x
    IN  [x |-> x2, y |-> y2]

\* The four independent adjustments of one entity's position.
MovePosition(dir, p) ==
    LET y1 == IF dir.up THEN p.y - Speed ELSE p.y
        y2 == IF dir.down THEN y1 + Speed ELSE y1
        x1 == IF dir.left THEN p.x - Speed ELSE p.x
        x2 == IF dir.right THEN x1 + Speed ELSE x1
    IN  [x |-> x2, y |-> y2]

\* A resync with the coordinates crossed.
ResyncBox_crossed(b, p) == [b EXCEPT !.x = p.y, !.y = p.x]

\* A resync that forgets the y coordinate.
ResyncBox_xOnly(b, p) == [b EXCEPT !.x = p.x]

\* The resync of a box's origin to the entity's (new) position.
ResyncBox(b, p) == [b EXCEPT !.x = p.x, !.y = p.y]

\* A join that leaves out the ControllableTag.
MovementJoin_noTag == (DOMAIN position) \cap (DOMAIN coll_box)

\* (&mut pos, &mut coll_box, &controlled).join()
MovementJoin == (DOMAIN position) \cap (DOMAIN coll_box) \cap controlled

\* An update that forgets to run the CollisionSystem after the movement.
MovementSystem_run_skipCollision ==
    /\ pc = "movement"
    /\ position' = [e \in DOMAIN position |->
                      IF e \in MovementJoin
                      THEN MovePosition(direction, position[e])
                      ELSE position[e]]
    /\ coll_box' = [e \in DOMAIN coll_box |->
                      IF e \in MovementJoin
                      THEN ResyncBox(coll_box[e], MovePosition(direction, position[e]))
                      ELSE coll_box[e]]
    /\ pc' = "maintain"
    /\ UNCHANGED <<image, controlled, input, timing, log, screen>>

\* A movement scaled by the frame time: a frame that enters update with two
\* or more steps accumulated moves twice per step.
MovementSystem_run_dtScaled ==
    /\ pc = "movement"
    /\ LET Move(p) == IF acc0 >= 2 * StepDt
                      THEN MovePosition(direction, MovePosition(direction, p))
                      ELSE MovePosition(direction, p)
       IN  /\ position' = [e \in DOMAIN position |->
                             IF e \in MovementJoin THEN Move(position[e])
                             ELSE position[e]]
           /\ coll_box' = [e \in DOMAIN coll_box |->
                             IF e \in MovementJoin
                             THEN ResyncBox(coll_box[e], Move(position[e]))
                             ELSE coll_box[e]]
    /\ pc' = "collision"
    /\ UNCHANGED <<image, controlled, input, timing, log, screen>>

MovementSystem_run ==
    /\ pc = "movement"
    /\ position' = [e \in DOMAIN position |->
                      IF e \in MovementJoin
                      THEN MovePosition(direction, position[e])
                      ELSE position[e]]
    /\ coll_box' = [e \in DOMAIN coll_box |->
                      IF e \in MovementJoin
                      THEN ResyncBox(coll_box[e], MovePosition(direction, position[e]))
                      ELSE coll_box[e]]
    /\ pc' = "collision"
    /\ UNCHANGED <<image, controlled, input, timing, log, screen>>

\* ----------------------------------------------------------- CollisionSystem
\* An overlap test that takes the player's own width for the other box's.
Overlap_ownWidth(a, b) ==
    /\ a.x < b.x + a.width
    /\ a.x + a.width > b.x
    /\ a.y < b.y + b.height
    /\ a.y + a.height > b.y

\* An overlap test that forgets the other box's right edge.
Overlap_noRightEdge(a, b) ==
    /\ a.x + a.width > b.x
    /\ a.y < b.y + b.height
    /\ a.y + a.height > b.y

\* An overlap test over closed intervals: touching edges count.
Overlap_closed(a, b) ==
    /\ a.x <= b.x + b.width
    /\ a.x + a.width >= b.x
    /\ a.y <= b.y + b.height
    /\ a.y + a.height >= b.y

\* The overlap test of the player's box a against another box b.
Overlap(a, b) ==
    /\ a.x < b.x + b.width
    /\ a.x + a.width > b.x
    /\ a.y < b.y + b.height
    /\ a.y + a.height > b.y

\* (&coll_box, &controlled_storage).join()
PlayerJoin == (DOMAIN coll_box) \cap controlled
\* A join of the other boxes that forgets to leave out the controlled ones.
OtherJoin_withTag == (DOMAIN position) \cap (DOMAIN coll_box)

\* (&pos, &coll_box, !&controlled_storage).join()
OtherJoin == ((DOMAIN position) \cap (DOMAIN coll_box)) \ controlled

\* Edge-triggered reports: a pair the previous step reported is not repeated.
CollisionReports_edge ==
    LET players == SortedSeq(PlayerJoin)
        others == SortedSeq(OtherJoin)
        Hits(p) == LET Hit(o) == /\ Overlap(coll_box[p], coll_box[o])
                                 /\ <<p, o>> \notin Range(LastReports)
                   IN  [i \in 1..Len(SelectSeq(others, Hit)) |->
                          <<p, SelectSeq(others, Hit)[i]>>]
    IN  Flatten([i \in 1..Len(players) |-> Hits(players[i])])

\* The reports one run prints, in order: one <<player, other>> per println.
CollisionReports ==
    LET players == SortedSeq(PlayerJoin)
        others == SortedSeq(OtherJoin)
        Hits(p) == LET Hit(o) == Overlap(coll_box[p], coll_box[o])
                   IN  [i \in 1..Len(SelectSeq(others, Hit)) |->
                          <<p, SelectSeq(others, Hit)[i]>>]
    IN  Flatten([i \in 1..Len(players) |-> Hits(players[i])])

\* A collision step with a response: a colliding player box is pushed back.
CollisionSystem_run_pushBack ==
    /\ pc = "collision"
    /\ log' = Append(log, CollisionReports)
    /\ coll_box' = [e \in DOMAIN coll_box |->
                      IF \E r \in {CollisionReports[i] : i \in DOMAIN CollisionReports} :
                            r[1] = e
                      THEN [coll_box[e] EXCEPT !.x = coll_box[e].x - Speed]
                      ELSE coll_box[e]]
    /\ pc' = "maintain"
    /\ UNCHANGED <<position, image, controlled, input, timing, screen>>

CollisionSystem_run ==
    /\ pc = "collision"
    /\ log' = Append(log, CollisionReports)
    /\ pc' = "maintain"
    /\ UNCHANGED <<world, input, timing, screen>>

\* ------------------------------------------------------------------- update
\* World::maintain: nothing was deleted or queued lazily, so nothing changes.
maintain ==
    /\ pc = "maintain"
    /\ ran' = ran + 1
    /\ pc' = "check"
    /\ UNCHANGED <<world, input, residual, acc0, log, screen>>

\* timer::check_update_time(ctx, DESIRED_FPS) on an accumulated time res.
check_update_time(res) ==
    IF res > StepDt THEN [fire |-> TRUE, residual |-> res - StepDt]
    ELSE [fire |-> FALSE, residual |-> res]

\* The host calls update.
update_enter ==
    /\ pc = "idle"
    /\ pc' = "check"
    /\ acc0' = residual
    /\ ran' = 0
    /\ UNCHANGED <<world, input, residual, log, screen>>

\* A loop condition that tests the accumulated time and forgets to consume it.
update_check_noDecrement ==
    /\ pc = "check"
    /\ residual' = residual
    /\ IF check_update_time(residual).fire
       THEN pc' = "movement" /\ UNCHANGED <<acc0, ran>>
       ELSE pc' = "idle" /\ acc0' = 0 /\ ran' = 0
    /\ UNCHANGED <<world, input, log, screen>>

\* update with an if in place of the while: at most one step per call.
update_check_once ==
    /\ pc = "check"
    /\ IF ran = 0 /\ check_update_time(residual).fire
       THEN /\ residual' = check_update_time(residual).residual
            /\ pc' = "movement"
            /\ UNCHANGED <<acc0, ran>>
       ELSE /\ residual' = IF ran = 0 THEN check_update_time(residual).residual
                                      ELSE residual
            /\ pc' = "idle" /\ acc0' = 0 /\ ran' = 0
    /\ UNCHANGED <<world, input, log, screen>>

\* The condition of update's while loop: run one more step, or return Ok(()).
\* The observers of the call end with it.
update_check ==
    /\ pc = "check"
    /\ residual' = check_update_time(residual).residual
    /\ IF check_update_time(residual).fire
       THEN pc' = "movement" /\ UNCHANGED <<acc0, ran>>
       ELSE pc' = "idle" /\ acc0' = 0 /\ ran' = 0
    /\ UNCHANGED <<world, input, log, screen>>

\* The host's timer tick at the top of a frame: e quanta have passed.
TimerTick(e) ==
    /\ pc = "idle"
    /\ residual' = residual + e
    /\ UNCHANGED <<world, input, pc, acc0, ran, log, screen>>

\* --------------------------------------------------------------------- draw
\* (&positions, &images).join()
DrawJoin == (DOMAIN position) \cap image

\* A draw that propagates the first graphics::draw error with ?: the pairs
\* after it are not drawn, draw returns Err and the event loop ends.
draw_propagate(failing) ==
    /\ pc = "idle"
    /\ LET bad == DrawJoin \cap failing
           first == CHOOSE x \in bad : \A y \in bad : x <= y
       IN  IF bad = {}
           THEN /\ drawn' = SortedSeq(DrawJoin)
                /\ pc' = pc
           ELSE /\ drawn' = SortedSeq({e \in DrawJoin : e < first})
                /\ pc' = "stopped"
    /\ draw_errors' = {}
    /\ UNCHANGED <<world, input, timing, log>>

\* draw, where graphics::draw fails for the entities of failing.
draw(failing) ==
    /\ pc = "idle"
    /\ drawn' = SortedSeq(DrawJoin \ failing)
    /\ draw_errors' = DrawJoin \cap failing
    /\ UNCHANGED <<world, input, timing, pc, log>>

\* --------------------------------------------------------------- key events
\* Directions treated as exclusive on an axis: setting one clears its opposite.
SetFlag_exclusive(d, keycode, v) ==
    CASE keycode = "Up" -> [d EXCEPT !.up = v, !.down = FALSE]
      [] keycode = "Down" -> [d EXCEPT !.down = v, !.up = FALSE]
      [] keycode = "Left" -> [d EXCEPT !.left = v, !.right = FALSE]
      [] keycode = "Right" -> [d EXCEPT !.right = v, !.left = FALSE]
      [] OTHER -> d

SetFlag(d, keycode, v) ==
    CASE keycode = "Up" -> [d EXCEPT !.up = v]
      [] keycode = "Down" -> [d EXCEPT !.down = v]
      [] keycode = "Left" -> [d EXCEPT !.left = v]
      [] keycode = "Right" -> [d EXCEPT !.right = v]
      [] OTHER -> d

\* A key-down that sets the local flag also on a repeat and publishes only
\* when it is no repeat.
key_down_event_repeatLocal(keycode, repeat) ==
    /\ pc = "idle"
    /\ player_input' = SetFlag(player_input, keycode, TRUE)
    /\ IF ~repeat
       THEN /\ direction' = SetFlag(player_input, keycode, TRUE)
            /\ held' = IF keycode \in ArrowKeys
                       THEN [held EXCEPT ![keycode] = TRUE] ELSE held
       ELSE UNCHANGED <<direction, held>>
    /\ UNCHANGED <<world, timing, pc, log, screen>>

key_down_event(keycode, repeat) ==
    /\ pc = "idle"
    /\ IF ~repeat
       THEN /\ player_input' = SetFlag(player_input, keycode, TRUE)
            /\ direction' = SetFlag(player_input, keycode, TRUE)
            /\ held' = IF keycode \in ArrowKeys
                       THEN [held EXCEPT ![keycode] = TRUE] ELSE held
       ELSE UNCHANGED input
    /\ UNCHANGED <<world, timing, pc, log, screen>>

\* A key-up that publishes the local copy before changing it.
key_up_event_stale(keycode) ==
    /\ pc = "idle"
    /\ player_input' = SetFlag(player_input, keycode, FALSE)
    /\ direction' = player_input
    /\ held' = IF keycode \in ArrowKeys
               THEN [held EXCEPT ![keycode] = FALSE] ELSE held
    /\ UNCHANGED <<world, timing, pc, log, screen>>

key_up_event(keycode) ==
    /\ pc = "idle"
    /\ player_input' = SetFlag(player_input, keycode, FALSE)
    /\ direction' = SetFlag(player_input, keycode, FALSE)
    /\ held' = IF keycode \in ArrowKeys
               THEN [held EXCEPT ![keycode] = FALSE] ELSE held
    /\ UNCHANGED <<world, timing, pc, log, screen>>

\* ------------------------------------------------------------ specification
\* The wall time passed since start-up.
Elapsed == residual + StepDt * Len(log)

Next ==
    \/ \E e \in 1..MaxElapsed : Elapsed + e <= MaxTime /\ TimerTick(e)
    \/ \E k \in KeyCodes, r \in BOOLEAN : key_down_event(k, r)
    \/ \E k \in KeyCodes : key_up_event(k)
    \/ \E f \in SUBSET {ShipA, ShipB} : draw(f)
    \/ update_enter
    \/ update_check
    \/ MovementSystem_run
    \/ CollisionSystem_run
    \/ maintain

Spec == Init /\ [][Next]_vars

\* The two-ship scenario: the image is 100 wide and 50 high, the only key
\* event is a key-down of Right, and time passes once Right is held.
ScenarioInit == NewWorld(100, 50)

ScenarioNext ==
    \/ \E r \in BOOLEAN : key_down_event("Right", r)
    \/ \E e \in 1..MaxElapsed :
          direction.right /\ Elapsed + e <= ScenarioTime /\ TimerTick(e)
    \/ update_enter
    \/ update_check
    \/ MovementSystem_run
    \/ CollisionSystem_run
    \/ maintain

ScenarioSpec == ScenarioInit /\ [][ScenarioNext]_vars

\* Arbitrary worlds for the collision step: a controlled entity and another
\* one, their boxes anywhere on a small grid, at the point where update is
\* about to run the CollisionSystem.
Grid == {Speed * i : i \in 0..GridMax}
GridBoxes == [x : Grid, y : Grid, width : Grid, height : Grid]

WorldInit ==
    /\ \E a \in GridBoxes, b \in GridBoxes :
          /\ coll_box = (ShipA :> a) @@ (ShipB :> b)
          /\ position = (ShipA :> [x |-> a.x, y |-> a.y])
                        @@ (ShipB :> [x |-> b.x, y |-> b.y])
    /\ image = {ShipA, ShipB}
    /\ controlled = {ShipA}
    /\ direction = DirectionNew
    /\ player_input = DirectionNew
    /\ residual = 1
    /\ pc = "collision"
    /\ log = <<>>
    /\ acc0 = StepDt + 1
    /\ ran = 0
    /\ held = [k \in ArrowKeys |-> FALSE]
    /\ drawn = <<>>
    /\ draw_errors = {}

WorldNext ==
    \/ CollisionSystem_run
    \/ maintain
    \/ update_check

WorldSpec == WorldInit /\ [][WorldNext]_vars

\* ================================================================== claims
B2N(b) == IF b THEN 1 ELSE 0

\* C1: in every reachable state, every entity with Position, CollisionBox
\* and ControllableTag has its box origin exactly at its position, in x and y.
C1_BoxOriginIsPosition ==
    \A e \in (DOMAIN position) \cap (DOMAIN coll_box) \cap controlled :
        /\ coll_box[e].x = position[e].x
        /\ coll_box[e].y = position[e].y

\* A movement step has just moved ship A away from its spawn point on both axes.
C1_Witness ==
    /\ pc = "collision"
    /\ position[ShipA].x # ShipAX
    /\ position[ShipA].y # ShipY

\* C2: one movement step changes the position of every entity with Position,
\* CollisionBox and ControllableTag by exactly
\* (10*right - 10*left, 10*down - 10*up), the flags read from the Direction
\* resource: they combine without normalization and opposite flags cancel.
C2_MoveDelta ==
    [][pc = "movement" =>
        \A e \in (DOMAIN position) \cap (DOMAIN coll_box) \cap controlled :
            /\ position'[e].x = position[e].x + 10 * B2N(direction.right)
                                              - 10 * B2N(direction.left)
            /\ position'[e].y = position[e].y + 10 * B2N(direction.down)
                                              - 10 * B2N(direction.up)]_vars

\* The first movement step ran with exactly up and right held: ship A went
\* from its spawn point by (+10, -10).
C2_Witness ==
    /\ pc = "collision"
    /\ log = <<>>
    /\ direction = [up |-> TRUE, down |-> FALSE, left |-> FALSE, right |-> TRUE]
    /\ position[ShipA] = [x |-> ShipAX + 10, y |-> ShipY - 10]

\* C3: the collision step reports the pair (controlled box a, other box b)
\* iff a.x < b.x + b.width, a.x + a.width > b.x, a.y < b.y + b.height and
\* a.y + a.height > b.y; boxes whose edges exactly touch on either axis are
\* not reported.
C3_ReportIffOverlap ==
    pc = "maintain" =>
        \A p \in (DOMAIN coll_box) \cap controlled :
        \A o \in ((DOMAIN position) \cap (DOMAIN coll_box)) \ controlled :
            LET a == coll_box[p]
                b == coll_box[o]
            IN  /\ <<p, o>> \in Range(LastReports) <=>
                       (/\ a.x < b.x + b.width
                        /\ a.x + a.width > b.x
                        /\ a.y < b.y + b.height
                        /\ a.y + a.height > b.y)
                /\ (\/ a.x + a.width = b.x
                    \/ b.x + b.width = a.x
                    \/ a.y + a.height = b.y
                    \/ b.y + b.height = a.y) => <<p, o>> \notin Range(LastReports)

\* The collision step ran on boxes of positive size that share a y range and
\* touch exactly along a vertical edge, and reported nothing.
C3_Witness ==
    /\ pc = "maintain"
    /\ coll_box[ShipA].width > 0
    /\ coll_box[ShipB].width > 0
    /\ coll_box[ShipA].x + coll_box[ShipA].width = coll_box[ShipB].x
    /\ coll_box[ShipA].y = coll_box[ShipB].y
    /\ coll_box[ShipA].height > 0
    /\ coll_box[ShipB].height > 0
    /\ LastReports = <<>>

\* C4: when update returns, an accumulated time strictly between k and k+1
\* fixed steps has run exactly k simulation steps and the remainder
\* (accumulated minus k steps) is retained; 3.5 steps run 3 and leave 0.5.
C4_CatchUp ==
    [][(pc = "check" /\ pc' = "idle") =>
        /\ \A k \in 0..acc0 :
              (k * StepDt < acc0 /\ acc0 < (k + 1) * StepDt) =>
                  (ran = k /\ residual' = acc0 - k * StepDt)
        /\ 2 * acc0 = 7 * StepDt => (ran = 3 /\ 2 * residual' = StepDt)]_vars

\* update, entered with 3.5 steps accumulated, has run 3 steps, holds half
\* a step and is about to return.
C4_Witness ==
    /\ pc = "check"
    /\ 2 * acc0 = 7 * StepDt
    /\ ran = 3
    /\ 2 * residual = StepDt

\* C5: within every simulation step the phases run in the order movement,
\* collision, maintain, each once; a step's movement starts only from the
\* loop condition (after the previous step's maintain, or at the entry of
\* update), and the collision step reports on the boxes the movement of the
\* same step has just written.
C5_PhaseOrder ==
    [][/\ pc = "movement" => pc' = "collision"
       /\ pc = "collision" => pc' = "maintain"
       /\ pc = "maintain" => (pc' = "check" /\ ran' = ran + 1)
       /\ pc' = "movement" => pc = "check"
       /\ pc' = "collision" => pc = "movement"
       /\ pc' = "maintain" =>
             /\ pc = "collision"
             /\ Len(log') = Len(log) + 1
             /\ \A p \in (DOMAIN coll_box) \cap controlled :
                \A o \in ((DOMAIN position) \cap (DOMAIN coll_box)) \ controlled :
                    <<p, o>> \in Range(log'[Len(log')])
                        <=> (/\ coll_box[p].x < coll_box[o].x + coll_box[o].width
                             /\ coll_box[p].x + coll_box[p].width > coll_box[o].x
                             /\ coll_box[p].y < coll_box[o].y + coll_box[o].height
                             /\ coll_box[p].y + coll_box[p].height > coll_box[o].y)
       /\ (pc = "check" /\ pc' = "check") => FALSE
       /\ Len(log') # Len(log) => pc = "collision"]_vars

\* The second step of one update call starts its movement, the first step's
\* maintain being done.
C5_Witness ==
    /\ pc = "movement"
    /\ ran = 1
    /\ Len(log) >= 1

\* C6: ship A at (75,100), ship B at (275,100), boxes 100 wide and 50 high,
\* only right held: the steps 1 to 10 report no collision (after step 10
\* A.x = 175, the boxes touch) and step 11 (A.x = 185) is the first to report.
C6_FirstReportAtStep11 ==
    /\ \A i \in 1..Len(log) :
          /\ i <= 10 => log[i] = <<>>
          /\ i = 11 => log[i] = <<<<ShipA, ShipB>>>>
    /\ position[ShipA].y = 100
    /\ position[ShipA].x =
          75 + 10 * (Len(log) + IF pc = "collision" THEN 1 ELSE 0)
    /\ coll_box[ShipB].x = 275 /\ coll_box[ShipB].y = 100
    /\ \A e \in {ShipA, ShipB} :
          coll_box[e].width = 100 /\ coll_box[e].height = 50

\* Eleven steps have run, ship A stands at x = 185, and the eleventh step
\* is the only one that reported.
C6_Witness ==
    /\ Len(log) = 11
    /\ position[ShipA].x = 185
    /\ log[10] = <<>>
    /\ log[11] # <<>>

\* C7: the collision step is a pure read: it leaves every Position,
\* CollisionBox, the ControllableTag membership and the Direction resource
\* unchanged, and run again on the state it leaves it would produce the
\* reports it has just produced.
C7_CollisionPureRead ==
    [][pc = "collision" =>
        /\ position' = position
        /\ coll_box' = coll_box
        /\ controlled' = controlled
        /\ image' = image
        /\ direction' = direction
        /\ player_input' = player_input
        /\ log' = Append(log, CollisionReports)
        /\ CollisionReports' = CollisionReports]_vars

\* A collision step has run and reported a pair.
C7_Witness ==
    /\ pc = "maintain"
    /\ LastReports # <<>>

\* C8: collision reporting is level-triggered: every step in which a
\* controlled box overlaps another box after that step's movement reports the
\* pair, once, also when the previous step reported it already, and a step in
\* which the pair does not overlap reports nothing for it.
C8_LevelTriggered ==
    (pc # "collision" /\ log # <<>>) =>
        /\ \A p \in (DOMAIN coll_box) \cap controlled :
           \A o \in ((DOMAIN position) \cap (DOMAIN coll_box)) \ controlled :
               <<p, o>> \in Range(LastReports)
                   <=> (/\ coll_box[p].x < coll_box[o].x + coll_box[o].width
                        /\ coll_box[p].x + coll_box[p].width > coll_box[o].x
                        /\ coll_box[p].y < coll_box[o].y + coll_box[o].height
                        /\ coll_box[p].y + coll_box[p].height > coll_box[o].y)
        /\ Len(LastReports) = Cardinality(Range(LastReports))

\* Two consecutive steps have both reported the pair of ships.
C8_Witness ==
    /\ pc = "maintain"
    /\ Len(log) >= 2
    /\ log[Len(log)] = <<<<ShipA, ShipB>>>>
    /\ log[Len(log) - 1] = <<<<ShipA, ShipB>>>>

\* C9: after any sequence of key events every flag of the Direction resource
\* is true iff the last key-up or non-repeat key-down of its arrow key was a
\* key-down, and the resource is the handler's whole local value.
C9_DirectionIsHeld ==
    /\ direction.up = held["Up"]
    /\ direction.down = held["Down"]
    /\ direction.left = held["Left"]
    /\ direction.right = held["Right"]
    /\ direction = player_input

\* A step ran with up held; up was released and right pressed since, and
\* the next movement step is about to read the resource.
C9_Witness ==
    /\ pc = "movement"
    /\ position[ShipA] = [x |-> ShipAX, y |-> ShipY - 10]
    /\ direction = [up |-> FALSE, down |-> FALSE, left |-> FALSE, right |-> TRUE]

\* C10: only the movement step changes a Position or a CollisionBox, and the
\* movement step leaves the Position and CollisionBox of every entity
\* without ControllableTag, and every box's width and height, unchanged.
C10_OnlyMovementMoves ==
    [][/\ pc # "movement" => (position' = position /\ coll_box' = coll_box)
       /\ pc = "movement" =>
             /\ DOMAIN position' = DOMAIN position
             /\ DOMAIN coll_box' = DOMAIN coll_box
             /\ \A e \in (DOMAIN position) \ controlled :
                   position'[e] = position[e]
             /\ \A e \in (DOMAIN coll_box) \ controlled :
                   coll_box'[e] = coll_box[e]
             /\ \A e \in DOMAIN coll_box :
                   /\ coll_box'[e].width = coll_box[e].width
                   /\ coll_box'[e].height = coll_box[e].height]_vars

\* A movement step has moved ship A and ship B stands where it was spawned.
C10_Witness ==
    /\ pc = "collision"
    /\ position[ShipA] # [x |-> ShipAX, y |-> ShipY]
    /\ position[ShipB] = [x |-> ShipBX, y |-> ShipY]
    /\ coll_box[ShipB].x = ShipBX

\* C11: with all four Direction flags false a movement step is a no-op:
\* every Position and every CollisionBox (origin, width, height) is the same
\* before and after it.
C11_NoFlagsNoOp ==
    [][(/\ pc = "movement"
        /\ ~direction.up /\ ~direction.down
        /\ ~direction.left /\ ~direction.right) =>
            /\ position' = position
            /\ coll_box' = coll_box]_vars

\* Ship A was moved off its spawn point by an earlier step, every key is
\* released, and a movement step has just run.
C11_Witness ==
    /\ pc = "collision"
    /\ direction = DirectionNew
    /\ Len(log) >= 1
    /\ position[ShipA].x # ShipAX
    /\ position[ShipA].y # ShipY

\* C12: a failure to draw one entity's image is logged and skipped: every
\* other (Position, Image) pair is still drawn, draw returns Ok with the
\* handler back at idle, so the tick loop goes on, and no Position,
\* CollisionBox or Direction value changes.
C12_DrawFailureSkipped ==
    [][(pc = "idle" /\ <<drawn, draw_errors>>' # <<drawn, draw_errors>>) =>
        /\ Range(drawn') \cup draw_errors' = (DOMAIN position) \cap image
        /\ Range(drawn') \cap draw_errors' = {}
        /\ Len(drawn') = Cardinality(Range(drawn'))
        /\ pc' = "idle"
        /\ position' = position
        /\ coll_box' = coll_box
        /\ direction' = direction
        /\ player_input' = player_input
        /\ residual' = residual]_vars

\* The last draw failed for ship A alone and drew ship B; a simulation step
\* of a later update is running.
C12_Witness ==
    /\ draw_errors = {ShipA}
    /\ drawn = <<ShipB>>
    /\ pc = "collision"

\* Runs that differ only in how the wall time is split.  Any set of arrow
\* keys that holds Up is pressed before time starts to pass; Up is released
\* once, between two update calls, when exactly SplitAt steps have run; the
\* host ticks and calls update in any interleaving.
SplitInit == Init

SplitAt == 2

SplitNext ==
    \/ \E k \in ArrowKeys :
          Elapsed = 0 /\ key_down_event(k, FALSE)
    \/ Len(log) = SplitAt /\ direction.up /\ key_up_event("Up")
    \/ \E e \in 1..MaxElapsed :
          /\ direction.up \/ Len(log) >= SplitAt
          /\ Elapsed + e <= MaxTime
          /\ TimerTick(e)
    \/ update_enter
    \/ update_check
    \/ MovementSystem_run
    \/ CollisionSystem_run
    \/ maintain

SplitSpec == SplitInit /\ [][SplitNext]_vars

\* The simulation steps whose movement has run.
StepsMoved == Len(log) + IF pc = "collision" THEN 1 ELSE 0

\* The steps of a run of SplitSpec that ran with Up held: all of them while
\* Up is held, the first SplitAt of them once it is released.
StepsWithUp ==
    IF direction.up THEN StepsMoved
    ELSE IF StepsMoved >= SplitAt THEN SplitAt ELSE 0

\* C13: movement per step does not depend on elapsed time: the Positions and
\* CollisionBoxes are a function of the number of steps run and of the
\* Direction snapshot of each step alone, so two runs with the same steps and
\* snapshots end alike however the time was split over update calls (one
\* stalled frame of 3 steps, or 3 frames of 1 step).
C13_StepsDecidePosition ==
    /\ position[ShipA].x = ShipAX + StepsMoved * (10 * B2N(direction.right)
                                                  - 10 * B2N(direction.left))
    /\ position[ShipA].y = ShipY + StepsMoved * 10 * B2N(direction.down)
                                 - StepsWithUp * 10
    /\ coll_box[ShipA].x = position[ShipA].x
    /\ coll_box[ShipA].y = position[ShipA].y
    /\ position[ShipB] = [x |-> ShipBX, y |-> ShipY]
    /\ coll_box[ShipB].x = ShipBX
    /\ coll_box[ShipB].y = ShipY

\* Three steps have run, the first two with up and right held and the third
\* with right alone, the last update call having run one step only.
C13_Witness ==
    /\ pc = "check"
    /\ ran = 1
    /\ Len(log) = 3
    /\ direction = [up |-> FALSE, down |-> FALSE, left |-> FALSE, right |-> TRUE]
    /\ position[ShipA] = [x |-> ShipAX + 30, y |-> ShipY - 20]

\* C14: the overlap test is symmetric: for any two boxes a and b with width
\* and height >= 0, zero sizes and swapped width and height included, the
\* collision step reports (a, b) iff the test applied to (b, a) holds.
C14_OverlapSymmetric ==
    /\ Overlap(coll_box[ShipA], coll_box[ShipB])
           <=> Overlap(coll_box[ShipB], coll_box[ShipA])
    /\ pc = "maintain" =>
           (<<ShipA, ShipB>> \in Range(LastReports)
                <=> Overlap(coll_box[ShipB], coll_box[ShipA]))

\* The collision step has reported two overlapping boxes of which one has
\* the other's width for its height and its height for its width.
C14_Witness ==
    /\ pc = "maintain"
    /\ coll_box[ShipA].width # coll_box[ShipA].height
    /\ coll_box[ShipA].width = coll_box[ShipB].height
    /\ coll_box[ShipA].height = coll_box[ShipB].width
    /\ coll_box[ShipA].x # coll_box[ShipB].x
    /\ LastReports = <<<<ShipA, ShipB>>>>

\* Worlds of three entities for the joins of the collision step: each entity
\* may or may not hold a Position, a CollisionBox and a ControllableTag, and
\* its box is one of three, of which the first two overlap.
JoinEntities == {0, 1, 2}
JoinBoxes ==
    {[x |-> 0, y |-> 0, width |-> 2 * Speed, height |-> 2 * Speed],
     [x |-> Speed, y |-> Speed, width |-> 2 * Speed, height |-> 2 * Speed],
     [x |-> 4 * Speed, y |-> 4 * Speed, width |-> Speed, height |-> Speed]}

JoinInit ==
    /\ \E hasPos \in SUBSET JoinEntities, hasBox \in SUBSET JoinEntities :
          /\ coll_box \in [hasBox -> JoinBoxes]
          /\ position = [e \in hasPos |->
                           IF e \in hasBox
                           THEN [x |-> coll_box[e].x, y |-> coll_box[e].y]
                           ELSE [x |-> 0, y |-> 0]]
    /\ image = {}
    /\ controlled \in SUBSET JoinEntities
    /\ direction = DirectionNew
    /\ player_input = DirectionNew
    /\ residual = 1
    /\ pc = "collision"
    /\ log = <<>>
    /\ acc0 = StepDt + 1
    /\ ran = 0
    /\ held = [k \in ArrowKeys |-> FALSE]
    /\ drawn = <<>>
    /\ draw_errors = {}

JoinSpec == JoinInit /\ [][WorldNext]_vars

\* The overlapping (controlled, other) pairs of the claim.
C15_ClaimedPairs ==
    {pr \in JoinEntities \X JoinEntities :
        /\ pr[1] \in DOMAIN coll_box /\ pr[1] \in controlled
        /\ pr[2] \in DOMAIN position /\ pr[2] \in DOMAIN coll_box
        /\ pr[2] \notin controlled
        /\ coll_box[pr[1]].x < coll_box[pr[2]].x + coll_box[pr[2]].width
        /\ coll_box[pr[1]].x + coll_box[pr[1]].width > coll_box[pr[2]].x
        /\ coll_box[pr[1]].y < coll_box[pr[2]].y + coll_box[pr[2]].height
        /\ coll_box[pr[1]].y + coll_box[pr[1]].height > coll_box[pr[2]].y}

\* C15: in one collision step the controlled set is the entities with
\* CollisionBox and ControllableTag, the other set the entities with Position
\* and CollisionBox and no ControllableTag; one report is printed per
\* overlapping (controlled, other) pair, so the reports are as many as those
\* pairs, and no controlled entity is tested against itself or against
\* another controlled entity.
C15_OneReportPerPair ==
    pc = "maintain" =>
        /\ Range(LastReports) = C15_ClaimedPairs
        /\ Len(LastReports) = Cardinality(C15_ClaimedPairs)
        /\ \A i \in DOMAIN LastReports :
              /\ LastReports[i][1] # LastReports[i][2]
              /\ LastReports[i][2] \notin controlled

\* Two controlled entities whose boxes overlap each other, the first without
\* a Position, and one other entity overlapping both: two reports, none for
\* the controlled pair.
C15_Witness ==
    /\ pc = "maintain"
    /\ controlled = {0, 1}
    /\ DOMAIN coll_box = JoinEntities
    /\ DOMAIN position = {1, 2}
    /\ coll_box[0] # coll_box[1]
    /\ Overlap(coll_box[0], coll_box[1])
    /\ LastReports = <<<<0, 2>>, <<1, 2>>>>

UpdateStep ==
    \/ update_check
    \/ MovementSystem_run
    \/ CollisionSystem_run
    \/ maintain

ScenarioTick ==
    \E e \in 1..MaxElapsed :
        direction.right /\ Elapsed + e <= ScenarioTime /\ TimerTick(e)

FairScenarioSpec ==
    /\ ScenarioSpec
    /\ WF_vars(UpdateStep)
    /\ SF_vars(update_enter)
    /\ SF_vars(ScenarioTick)
    /\ SF_vars(key_down_event("Right", FALSE))

\* C17: every call of update terminates: each iteration of the loop lowers
\* the accumulated time by exactly one fixed step, nothing inside update
\* raises it, and an update that has started always returns to idle.
C17_UpdateTerminates ==
    /\ [][(pc = "check" /\ pc' = "movement") =>
             residual' = residual - StepDt]_vars
    /\ [][pc # "idle" => residual' <= residual]_vars
    /\ [][(pc = "check" /\ pc' = "idle") => residual <= StepDt]_vars
    /\ [](pc # "idle" => <>(pc = "idle"))

\* An update call has run four iterations and its loop condition is about
\* to fail.
C17_Witness ==
    /\ pc = "check"
    /\ ran = 4
    /\ residual <= StepDt

\* C20: in the two-ship scenario with right held and steps going on, a
\* collision is eventually reported and the reporting later stops for good:
\* the steps 11 to 29 (A.x from 185 to 365) report and no other step does,
\* none from step 30 on (A.x >= 375).
C20_ReportsFrom11To29 ==
    /\ [](\A i \in 1..Len(log) :
             /\ (11 <= i /\ i <= 29) => log[i] = <<<<ShipA, ShipB>>>>
             /\ (i < 11 \/ i > 29) => log[i] = <<>>)
    /\ [](pc # "collision" => position[ShipA].x = 75 + 10 * Len(log))
    /\ <>(LastReports # <<>>)
    /\ <>[](Len(log) >= 30 /\ LastReports = <<>>)

\* Thirty steps have run: ship A stands at x = 375, step 29 was the last one
\* to report and step 30 reported nothing.
C20_Witness ==
    /\ Len(log) = 30
    /\ position[ShipA].x = 375
    /\ log[11] # <<>>
    /\ log[29] # <<>>
    /\ log[30] = <<>>

\* The flag of a Direction value that an arrow key stands for.
FlagOf(d, k) ==
    CASE k = "Up" -> d.up
      [] k = "Down" -> d.down
      [] k = "Left" -> d.left
      [] k = "Right" -> d.right

\* C18: between handler calls the Direction resource of the specs world is
\* field for field equal to MainState.player_input, also after a key-down
\* with repeat = true and after events for keys that are no arrow keys.
C18_ResourceTracksLocal ==
    /\ direction.up = player_input.up
    /\ direction.down = player_input.down
    /\ direction.left = player_input.left
    /\ direction.right = player_input.right

\* Keys were pressed and released: ship A was moved by a step, and now left
\* and down are held in both copies while update runs.
C18_Witness ==
    /\ pc = "movement"
    /\ position[ShipA].x > ShipAX
    /\ player_input = [up |-> FALSE, down |-> TRUE, left |-> TRUE, right |-> FALSE]
    /\ direction = player_input

\* C19: a key event changes only its own flag: a key-down or key-up of an
\* arrow key leaves the three other flags unchanged in the local copy and in
\* the published resource, a key-down with repeat = true changes no flag, and
\* an event for any other key changes no flag.
C19_OnlyOwnFlag ==
    [][/\ \A k \in KeyCodes, r \in BOOLEAN :
             key_down_event(k, r) =>
                 /\ \A g \in ArrowKeys :
                       (g # k \/ r) =>
                           /\ FlagOf(player_input', g) = FlagOf(player_input, g)
                           /\ FlagOf(direction', g) = FlagOf(direction, g)
                 /\ (k \in ArrowKeys /\ ~r) =>
                       (FlagOf(player_input', k) /\ FlagOf(direction', k))
       /\ \A k \in KeyCodes :
             key_up_event(k) =>
                 /\ \A g \in ArrowKeys :
                       g # k =>
                           /\ FlagOf(player_input', g) = FlagOf(player_input, g)
                           /\ FlagOf(direction', g) = FlagOf(direction, g)
                 /\ k \in ArrowKeys =>
                       (~FlagOf(player_input', k) /\ ~FlagOf(direction', k))]_vars

\* Left and right are held together with up, down is not: the key-downs of
\* opposite keys have left each other's flag alone.
C19_Witness ==
    /\ pc = "idle"
    /\ direction = [up |-> TRUE, down |-> FALSE, left |-> TRUE, right |-> TRUE]
    /\ player_input = direction

====
